---- MODULE Spec2Model ----
(***************************************************************************)
(* Model of asaphus_coding_challenge.cpp: the Box hierarchy (GreenBox,     *)
(* BlueBox), Player::takeTurn and play.                                    *)
(*                                                                         *)
(* Numbers.  The program computes in double.  The model computes in exact  *)
(* rational arithmetic on scaled integers:                                 *)
(*   - a weight (Box::weight_, an absorbed weight, a token converted to    *)
(*     double) d is the integer 10*d (tenths), so 0.1 is 1 and 1.0 is 10;  *)
(*   - a mean of one, two or three weights m is the integer 60*m;          *)
(*   - a score s is the integer 3600*s, so 9.0 is 32400 and 56.25 is       *)
(*     202500.                                                             *)
(* Every quotient the code takes (by a size of 1, 2 or 3, and by 2 in the  *)
(* pairing function) is exact in these units.  Rounding of double is not   *)
(* modelled: at the magnitudes of the bounds below it changes no           *)
(* comparison of two box weights.                                          *)
(***************************************************************************)
EXTENDS Integers, Sequences, FiniteSets, TLC

\* Longest enumerated input of play, largest enumerated token, and the
\* number of absorptions of the single box of the box test cases.
MaxLen == 4
MaxToken == 3
MaxAbsorb == 4

VARIABLES
  pc,             \* play: "NotStarted", "InProgress", "Finished"
  input_weights,  \* play's argument, a sequence of uint32 tokens
  i,              \* play's loop counter
  boxes,          \* play's vector of boxes
  player_A,       \* player_A.score_
  player_B,       \* player_B.score_
  result,         \* the pair play returns, << >> before it returns
  log,            \* history: one record per turn taken
  box,            \* the box of a box test case (TEST_CASE green / blue)
  rets,           \* history: the scores absorb returned to the test case
  run2            \* a second, independent call of play on the same input

vars == <<pc, input_weights, i, boxes, player_A, player_B, result, log,
          box, rets, run2>>
gameVars == <<pc, input_weights, i, boxes, player_A, player_B, result, log>>

-----------------------------------------------------------------------------
\* Box, GreenBox, BlueBox

\* Box::Box(initial_weight); initial_weight is kept as a history field.
Box(kind, initial_weight) ==
  [kind |-> kind, initial_weight |-> initial_weight,
   weight_ |-> initial_weight, absorbed_weights_ |-> << >>]

makeGreenBox(initial_weight) == Box("Green", initial_weight)

\* mutant: the initial weight is not passed on to Box
makeBlueBox_noWeight(initial_weight) == Box("Blue", 0)
makeBlueBox(initial_weight) == Box("Blue", initial_weight)

\* mutant: > instead of <, so that min_element yields the heaviest box
Box_lt_greater(lhs, rhs) == lhs.weight_ > rhs.weight_

\* mutant: <= instead of <, so that min_element keeps the last minimum
Box_lt_orEqual(lhs, rhs) == lhs.weight_ <= rhs.weight_

\* bool Box::operator<(const Box &rhs)
Box_lt(lhs, rhs) == lhs.weight_ < rhs.weight_

\* std::accumulate(vec.begin(), vec.end(), init), and the loop of meanList
RECURSIVE accumulate(_, _)
accumulate(vec, init) ==
  IF vec = << >> THEN init ELSE accumulate(Tail(vec), init + Head(vec))

\* GreenBox::mean: sum / size, in sixtieths
mean(vec) == (6 * accumulate(vec, 0)) \div Len(vec)

\* GreenBox::meanList: sum / size, in sixtieths
meanList(vec) == (6 * accumulate(vec, 0)) \div Len(vec)

\* std::pow(x, 2) of a mean in sixtieths: a score in 1/3600
pow2(x) == x * x

\* std::vector<double> last_three(rbegin(), rbegin() + 3)
last_three(v) == <<v[Len(v)], v[Len(v) - 1], v[Len(v) - 2]>>

\* mutant: the mean is taken over the whole history, not the last three
GreenBox_calculateScore_all(b) ==
  IF b.absorbed_weights_ = << >> THEN 0
  ELSE pow2((6 * accumulate(b.absorbed_weights_, 0)) \div Len(b.absorbed_weights_))

\* mutant: below three entries the mean is taken from the running weight_
GreenBox_calculateScore_byWeight(b) ==
  IF b.absorbed_weights_ = << >> THEN 0
  ELSE IF Len(b.absorbed_weights_) < 3
       THEN pow2((6 * b.weight_) \div Len(b.absorbed_weights_))
       ELSE pow2(mean(last_three(b.absorbed_weights_)))

GreenBox_calculateScore(b) ==
  IF b.absorbed_weights_ = << >> THEN 0
  ELSE IF Len(b.absorbed_weights_) < 3
       THEN pow2(meanList(b.absorbed_weights_))
       ELSE pow2(mean(last_three(b.absorbed_weights_)))

\* mutant: the weight is not recorded in absorbed_weights_
GreenBox_absorb_noPush(b, weight) ==
  LET nb == [b EXCEPT !.weight_ = @ + weight]
  IN [box |-> nb, ret |-> GreenBox_calculateScore(nb)]

\* mutant: weight_ = weight_ - weight
GreenBox_absorb_sub(b, weight) ==
  LET nb == [b EXCEPT !.absorbed_weights_ = Append(@, weight),
                      !.weight_ = @ - weight]
  IN [box |-> nb, ret |-> GreenBox_calculateScore(nb)]

GreenBox_absorb(b, weight) ==
  LET nb == [b EXCEPT !.absorbed_weights_ = Append(@, weight),
                      !.weight_ = @ + weight]
  IN [box |-> nb, ret |-> GreenBox_calculateScore(nb)]

\* std::min_element over doubles: the first smallest element
RECURSIVE min_element_from(_, _, _)
min_element_from(v, it, smallest) ==
  IF it > Len(v) THEN v[smallest]
  ELSE min_element_from(v, it + 1, IF v[it] < v[smallest] THEN it ELSE smallest)
min_element(v) == min_element_from(v, 2, 1)

\* std::max_element over doubles: the first largest element
RECURSIVE max_element_from(_, _, _)
max_element_from(v, it, largest) ==
  IF it > Len(v) THEN v[largest]
  ELSE max_element_from(v, it + 1, IF v[largest] < v[it] THEN it ELSE largest)
max_element(v) == max_element_from(v, 2, 1)

\* 0.5 * (k1 + k2) * (k1 + k2 + 1) + k2 on tenths, in 1/3600:
\* 3600 * (0.5 * (K1+K2)/10 * ((K1+K2)/10 + 1) + K2/10)
cantorFunction(k1, k2) == 18 * (k1 + k2) * (k1 + k2 + 10) + 360 * k2

\* mutant: the largest weight is passed first, the smallest second
BlueBox_calculateScore_swapped(b) ==
  IF b.absorbed_weights_ = << >> THEN 0
  ELSE LET smallest == min_element(b.absorbed_weights_)
           largest == max_element(b.absorbed_weights_)
       IN cantorFunction(largest, smallest)

\* mutant: the first and the last absorbed weight instead of min and max
BlueBox_calculateScore_ends(b) ==
  IF b.absorbed_weights_ = << >> THEN 0
  ELSE cantorFunction(b.absorbed_weights_[1],
                      b.absorbed_weights_[Len(b.absorbed_weights_)])

BlueBox_calculateScore(b) ==
  IF b.absorbed_weights_ = << >> THEN 0
  ELSE LET smallest == min_element(b.absorbed_weights_)
           largest == max_element(b.absorbed_weights_)
       IN cantorFunction(smallest, largest)

\* mutant: weight_ = weight instead of weight_ = weight_ + weight
BlueBox_absorb_assign(b, weight) ==
  LET nb == [b EXCEPT !.absorbed_weights_ = Append(@, weight),
                      !.weight_ = weight]
  IN [box |-> nb, ret |-> BlueBox_calculateScore(nb)]

BlueBox_absorb(b, weight) ==
  LET nb == [b EXCEPT !.absorbed_weights_ = Append(@, weight),
                      !.weight_ = @ + weight]
  IN [box |-> nb, ret |-> BlueBox_calculateScore(nb)]

\* virtual dispatch of Box::absorb and Box::calculateScore
absorb(b, weight) ==
  IF b.kind = "Green" THEN GreenBox_absorb(b, weight) ELSE BlueBox_absorb(b, weight)
calculateScore(b) ==
  IF b.kind = "Green" THEN GreenBox_calculateScore(b) ELSE BlueBox_calculateScore(b)

-----------------------------------------------------------------------------
\* Player

\* std::min_element(boxes.begin(), boxes.end(), [](a, b) { return *a < *b; })
RECURSIVE min_box_from(_, _, _)
min_box_from(bs, it, smallest) ==
  IF it > Len(bs) THEN smallest
  ELSE min_box_from(bs, it + 1, IF Box_lt(bs[it], bs[smallest]) THEN it ELSE smallest)

\* mutant: any box is picked
smallest_box_any(bs, j) == j \in DOMAIN bs

\* auto smallest_box = std::min_element(...): j is the position it yields
smallest_box(bs, j) == j = min_box_from(bs, 2, 1)

\* the uint32_t token bound to absorb's const double & parameter
ToDouble(input_weight) == 10 * input_weight

\* mutant: score_ = instead of score_ +=
Player_takeTurn_assign(score_, input_weight, bs, j) ==
  LET r == absorb(bs[j], ToDouble(input_weight))
  IN [score_ |-> r.ret, boxes |-> [bs EXCEPT ![j] = r.box], ret |-> r.ret]

\* mutant: every box absorbs the token, the smallest one's score is added
Player_takeTurn_all(score_, input_weight, bs, j) ==
  LET r == absorb(bs[j], ToDouble(input_weight))
  IN [score_ |-> score_ + r.ret,
      boxes |-> [m \in DOMAIN bs |-> absorb(bs[m], ToDouble(input_weight)).box],
      ret |-> r.ret]

\* mutant: score_ -= instead of score_ +=
Player_takeTurn_sub(score_, input_weight, bs, j) ==
  LET r == absorb(bs[j], ToDouble(input_weight))
  IN [score_ |-> score_ - r.ret, boxes |-> [bs EXCEPT ![j] = r.box], ret |-> r.ret]

\* score_ += (*smallest_box)->absorb(input_weight), smallest_box at j
Player_takeTurn(score_, input_weight, bs, j) ==
  LET r == absorb(bs[j], ToDouble(input_weight))
  IN [score_ |-> score_ + r.ret, boxes |-> [bs EXCEPT ![j] = r.box], ret |-> r.ret]

-----------------------------------------------------------------------------
\* play

RECURSIVE SeqsUpTo(_, _)
SeqsUpTo(S, n) ==
  IF n = 0 THEN {<< >>}
  ELSE LET shorter == SeqsUpTo(S, n - 1)
       IN shorter \cup {Append(s, x) : s \in {t \in shorter : Len(t) = n - 1}, x \in S}

Fibonacci4 == <<1, 1, 2, 3>>
Fibonacci8 == <<1, 1, 2, 3, 5, 8, 13, 21>>

\* the inputs play is called with: the three test cases' and all short ones
Inputs == SeqsUpTo(0 .. MaxToken, MaxLen) \cup {<< >>, Fibonacci4, Fibonacci8}

NoBox == [kind |-> "None"]
NoRun == [pc |-> "NoGame"]

InitPlay ==
  /\ pc = "NotStarted"
  /\ input_weights \in Inputs
  /\ i = 0
  /\ boxes = << >>
  /\ player_A = 0
  /\ player_B = 0
  /\ result = << >>
  /\ log = << >>
  /\ box = NoBox
  /\ rets = << >>
  /\ run2 = NoRun

\* mutant: the second green box is made with the first one's weight
play_boxes_equal == <<makeGreenBox(0), makeGreenBox(0), makeBlueBox(2), makeBlueBox(3)>>

\* the four emplace_back calls
play_boxes == <<makeGreenBox(0), makeGreenBox(1), makeBlueBox(2), makeBlueBox(3)>>

\* play, up to the loop: the boxes, the players, i = 0
PlayBegin ==
  /\ pc = "NotStarted"
  /\ pc' = "InProgress"
  /\ boxes' = play_boxes
  /\ player_A' = 0
  /\ player_B' = 0
  /\ i' = 0
  /\ UNCHANGED <<input_weights, result, log, box, rets, run2>>

\* mutant: Player B starts
is_player_A_turn_odd(idx) == idx % 2 = 1

\* if (i % 2 == 0): the turn is player_A's
is_player_A_turn(idx) == idx % 2 = 0

\* one iteration of the loop of play
PlayTurn ==
  /\ pc = "InProgress"
  /\ i < Len(input_weights)
  /\ LET weight == input_weights[i + 1]
     IN \E j \in DOMAIN boxes :
          /\ smallest_box(boxes, j)
          /\ IF is_player_A_turn(i)
             THEN LET t == Player_takeTurn(player_A, weight, boxes, j)
                  IN /\ player_A' = t.score_
                     /\ boxes' = t.boxes
                     /\ log' = Append(log, [player |-> "A", box |-> j,
                                            weight |-> weight, ret |-> t.ret,
                                            score_ |-> t.score_])
                     /\ UNCHANGED player_B
             ELSE LET t == Player_takeTurn(player_B, weight, boxes, j)
                  IN /\ player_B' = t.score_
                     /\ boxes' = t.boxes
                     /\ log' = Append(log, [player |-> "B", box |-> j,
                                            weight |-> weight, ret |-> t.ret,
                                            score_ |-> t.score_])
                     /\ UNCHANGED player_A
  /\ i' = i + 1
  /\ UNCHANGED <<pc, input_weights, result, box, rets, run2>>

\* the end of the loop: std::make_pair(player_A.getScore(), player_B.getScore())
PlayReturn ==
  /\ pc = "InProgress"
  /\ ~(i < Len(input_weights))
  /\ pc' = "Finished"
  /\ result' = <<player_A, player_B>>
  /\ UNCHANGED <<input_weights, i, boxes, player_A, player_B, log, box, rets, run2>>

NextPlay == PlayBegin \/ PlayTurn \/ PlayReturn

Spec == InitPlay /\ [][NextPlay]_vars

\* play is one uninterrupted call on a single thread: it always takes its
\* next step.
FairSpec == Spec /\ WF_vars(NextPlay)

-----------------------------------------------------------------------------
\* Player::takeTurn on collections in which weights coincide.  In play the
\* four weights coincide only once double rounding has absorbed the initial
\* 0.1, 0.2, 0.3 (sums near 2^53), far beyond the bounds; here the loop of
\* play starts from four boxes Green, Green, Blue, Blue whose initial
\* weights are drawn from TieWeights, or are those of play.

TieWeights == {0, 1}
TieInputs == SeqsUpTo({0, 1}, MaxLen)

InitTakeTurn ==
  /\ pc = "InProgress"
  /\ input_weights \in TieInputs
  /\ i = 0
  /\ boxes \in {<<makeGreenBox(w[1]), makeGreenBox(w[2]),
                  makeBlueBox(w[3]), makeBlueBox(w[4])>> :
                   w \in [1 .. 4 -> TieWeights] \cup {<<0, 1, 2, 3>>}}
  /\ player_A = 0
  /\ player_B = 0
  /\ result = << >>
  /\ log = << >>
  /\ box = NoBox
  /\ rets = << >>
  /\ run2 = NoRun

TakeTurnSpec == InitTakeTurn /\ [][PlayTurn \/ PlayReturn]_vars

-----------------------------------------------------------------------------
\* Two independent calls of play on the same input: the first in the
\* variables of play, the second in run2.

InitTwoRuns ==
  /\ pc = "NotStarted"
  /\ input_weights \in Inputs
  /\ i = 0
  /\ boxes = << >>
  /\ player_A = 0
  /\ player_B = 0
  /\ result = << >>
  /\ log = << >>
  /\ box = NoBox
  /\ rets = << >>
  /\ run2 = [pc |-> "NotStarted", i |-> 0, boxes |-> << >>, player_A |-> 0,
             player_B |-> 0, result |-> << >>, log |-> << >>]

PlayBegin2 ==
  /\ run2.pc = "NotStarted"
  /\ run2' = [run2 EXCEPT !.pc = "InProgress", !.boxes = play_boxes,
                          !.player_A = 0, !.player_B = 0, !.i = 0]
  /\ UNCHANGED <<gameVars, box, rets>>

PlayTurn2 ==
  /\ run2.pc = "InProgress"
  /\ run2.i < Len(input_weights)
  /\ LET weight == input_weights[run2.i + 1]
     IN \E j \in DOMAIN run2.boxes :
          /\ smallest_box(run2.boxes, j)
          /\ IF is_player_A_turn(run2.i)
             THEN LET t == Player_takeTurn(run2.player_A, weight, run2.boxes, j)
                  IN run2' = [run2 EXCEPT
                       !.player_A = t.score_, !.boxes = t.boxes, !.i = @ + 1,
                       !.log = Append(@, [player |-> "A", box |-> j,
                                          weight |-> weight, ret |-> t.ret,
                                          score_ |-> t.score_])]
             ELSE LET t == Player_takeTurn(run2.player_B, weight, run2.boxes, j)
                  IN run2' = [run2 EXCEPT
                       !.player_B = t.score_, !.boxes = t.boxes, !.i = @ + 1,
                       !.log = Append(@, [player |-> "B", box |-> j,
                                          weight |-> weight, ret |-> t.ret,
                                          score_ |-> t.score_])]
  /\ UNCHANGED <<gameVars, box, rets>>

PlayReturn2 ==
  /\ run2.pc = "InProgress"
  /\ ~(run2.i < Len(input_weights))
  /\ run2' = [run2 EXCEPT !.pc = "Finished",
                          !.result = <<run2.player_A, run2.player_B>>]
  /\ UNCHANGED <<gameVars, box, rets>>

NextPlay2 == PlayBegin2 \/ PlayTurn2 \/ PlayReturn2

TwoRunsSpec == InitTwoRuns /\ [][NextPlay \/ NextPlay2]_vars

-----------------------------------------------------------------------------
\* The box test cases: a box is made and absorbs weights one after another.

\* the doubles a test case hands to absorb: the test cases' 3, 12, 15 and
\* 1, 7, 23, and 0, and -0.5 (absorb takes any double)
Doubles == {-5, 0, 10, 30, 70, 120, 150, 230}

\* the initial weights of the test cases' boxes: 0.0 and 0.2
InitialWeights == {0, 2}

InitBox ==
  /\ pc = "NoGame"
  /\ input_weights = << >>
  /\ i = 0
  /\ boxes = << >>
  /\ player_A = 0
  /\ player_B = 0
  /\ result = << >>
  /\ log = << >>
  /\ box \in {makeGreenBox(w) : w \in InitialWeights}
             \cup {makeBlueBox(w) : w \in InitialWeights}
  /\ rets = << >>
  /\ run2 = NoRun

\* box->absorb(weight), as in REQUIRE(green_box->absorb(3) == 9.0)
TestAbsorb ==
  /\ box # NoBox
  /\ Len(box.absorbed_weights_) < MaxAbsorb
  /\ \E weight \in Doubles :
       LET r == absorb(box, weight)
       IN /\ box' = r.box
          /\ rets' = Append(rets, r.ret)
  /\ UNCHANGED <<gameVars, run2>>

BoxSpec == InitBox /\ [][TestAbsorb]_vars

\* the test cases together: each one either calls play or exercises a box
TestSpec == (InitPlay \/ InitBox) /\ [][NextPlay \/ TestAbsorb]_vars

-----------------------------------------------------------------------------
\* Properties of play

TurnsOf(p) == Cardinality({k \in 1 .. Len(log) : log[k].player = p})

RECURSIVE ScoreSum(_, _)
ScoreSum(lg, p) ==
  IF lg = << >> THEN 0
  ELSE (IF Head(lg).player = p THEN Head(lg).ret ELSE 0) + ScoreSum(Tail(lg), p)

\* the tokens the log says box j absorbed, in turn order, as doubles
RECURSIVE AbsorbedBy(_, _)
AbsorbedBy(lg, j) ==
  IF lg = << >> THEN << >>
  ELSE (IF Head(lg).box = j THEN <<10 * Head(lg).weight>> ELSE << >>)
       \o AbsorbedBy(Tail(lg), j)

\* C2: the token at 0-based index k goes to Player A when k is even and to
\* Player B when k is odd, no player takes two consecutive turns, and when
\* play has finished on an input of length L Player A has taken ceil(L/2)
\* turns and Player B floor(L/2).
C2_Alternation ==
  /\ \A k \in 1 .. Len(log) :
       /\ log[k].player = (IF (k - 1) % 2 = 0 THEN "A" ELSE "B")
       /\ log[k].weight = input_weights[k]
  /\ \A k \in 1 .. Len(log) - 1 : log[k].player # log[k + 1].player
  /\ pc = "Finished" =>
       /\ TurnsOf("A") = (Len(input_weights) + 1) \div 2
       /\ TurnsOf("B") = Len(input_weights) \div 2
       /\ TurnsOf("A") + TurnsOf("B") = Len(input_weights)

C2_Witness == pc = "Finished" /\ Len(input_weights) = 3 /\ TurnsOf("A") = 2

\* C5: play returns (sum of the scores absorb returned on Player A's turns,
\* sum of those on Player B's turns); play([1,1,2,3]) = (13.0, 25.0) and
\* play([1,1,2,3,5,8,13,21]) = (155.0, 366.25).
C5_PlayResult ==
  pc = "Finished" =>
    /\ result = <<ScoreSum(log, "A"), ScoreSum(log, "B")>>
    /\ input_weights = Fibonacci4 => result = <<13 * 3600, 25 * 3600>>
    /\ input_weights = Fibonacci8 => result = <<155 * 3600, 36625 * 36>>

C5_Witness == pc = "Finished" /\ input_weights = Fibonacci8 /\ Len(log) = 8

\* C7: on the empty input play returns (0.0, 0.0) and no box has absorbed:
\* the four boxes have their initial weights and empty histories.
C7_EmptyInput ==
  (pc = "Finished" /\ input_weights = << >>) =>
    /\ result = <<0, 0>>
    /\ log = << >>
    /\ Len(boxes) = 4
    /\ <<boxes[1].kind, boxes[2].kind, boxes[3].kind, boxes[4].kind>>
         = <<"Green", "Green", "Blue", "Blue">>
    /\ <<boxes[1].weight_, boxes[2].weight_, boxes[3].weight_, boxes[4].weight_>>
         = <<0, 1, 2, 3>>
    /\ \A j \in 1 .. 4 : boxes[j].absorbed_weights_ = << >>

C7_Witness == pc = "Finished" /\ input_weights = << >> /\ result # << >>

\* C8: for every input of length L play moves NotStarted -> InProgress ->
\* Finished and eventually reaches Finished, after exactly L turns; each token
\* is absorbed once, in input order, by one box, so that at Finished the
\* histories of the four boxes hold L entries in all.
C8_Termination ==
  /\ <>(pc = "Finished")
  /\ [](pc \in {"NotStarted", "InProgress", "Finished"})
  /\ [][\/ pc = "NotStarted" /\ pc' = "InProgress"
        \/ pc = "InProgress" /\ pc' = "InProgress" /\ i' = i + 1
                              /\ i < Len(input_weights)
        \/ pc = "InProgress" /\ pc' = "Finished" /\ i = Len(input_weights)]_vars
  /\ [](pc = "Finished" =>
         /\ i = Len(input_weights)
         /\ Len(log) = Len(input_weights)
         /\ \A k \in 1 .. Len(log) : log[k].weight = input_weights[k]
         /\ \A j \in 1 .. 4 : boxes[j].absorbed_weights_ = AbsorbedBy(log, j)
         /\ accumulate([j \in 1 .. 4 |-> Len(boxes[j].absorbed_weights_)], 0)
              = Len(input_weights))

C8_Witness ==
  /\ pc = "Finished"
  /\ Len(input_weights) = 4
  /\ accumulate([j \in 1 .. 4 |-> Len(boxes[j].absorbed_weights_)], 0) = 4

-----------------------------------------------------------------------------
\* Properties of the boxes

RECURSIVE SeqSum(_)
SeqSum(v) == IF v = << >> THEN 0 ELSE SeqSum(SubSeq(v, 1, Len(v) - 1)) + v[Len(v)]

Range(v) == {v[k] : k \in DOMAIN v}
SetMin(S) == CHOOSE x \in S : \A y \in S : x <= y
SetMax(S) == CHOOSE x \in S : \A y \in S : y <= x

\* the last k entries of v
LastK(v, k) == SubSeq(v, Len(v) - k + 1, Len(v))

\* 3600 * ((sum of v / 10) / Len(v))^2 is an integer for Len(v) in 1 .. 3
SquaredMean(v) == (36 * SeqSum(v) * SeqSum(v)) \div (Len(v) * Len(v))

\* 3600 * pairing(a / 10, b / 10), pairing(x, y) = 0.5 * (x + y) * (x + y + 1) + y
Pairing(a, b) == (36 * (a + b) * (a + b + 10)) \div 2 + 360 * b

\* C3: for a GreenBox with history of length n >= 1 the score absorb returned
\* is the square of the mean of the last min(n, 3) absorbed weights; once
\* n >= 3 any history with the same last three entries has the same score;
\* a fresh GreenBox absorbing 3, 12, 15 returns 9.0, 56.25, 100.0.
C3_GreenScore ==
  (box # NoBox /\ box.kind = "Green" /\ box.absorbed_weights_ # << >>) =>
    LET h == box.absorbed_weights_
        n == Len(h)
        k == IF n < 3 THEN n ELSE 3
    IN /\ Len(rets) = n
       /\ rets[n] = SquaredMean(LastK(h, k))
       /\ rets[n] = calculateScore(box)
       /\ n >= 3 =>
            \A older \in SeqsUpTo(Doubles, 2) :
              calculateScore([box EXCEPT !.absorbed_weights_ = older \o LastK(h, 3)])
                = rets[n]
       /\ (n >= 3 /\ SubSeq(h, 1, 3) = <<30, 120, 150>>) =>
            SubSeq(rets, 1, 3) = <<9 * 3600, 5625 * 36, 100 * 3600>>

C3_Witness ==
  /\ box # NoBox /\ box.kind = "Green"
  /\ box.absorbed_weights_ = <<230, 30, 120, 150>>
  /\ rets[4] = 100 * 3600

\* C4: for a BlueBox with non-empty history the score absorb returned is
\* pairing(a, b) = 0.5*(a+b)*(a+b+1) + b with a the minimum and b the maximum
\* of the whole history; pairing(0, 1) = 2; a fresh BlueBox absorbing
\* 1, 7, 23 returns 4.0, 43.0, 323.0.
C4_BlueScore ==
  (box # NoBox /\ box.kind = "Blue" /\ box.absorbed_weights_ # << >>) =>
    LET h == box.absorbed_weights_
        n == Len(h)
    IN /\ Len(rets) = n
       /\ rets[n] = Pairing(SetMin(Range(h)), SetMax(Range(h)))
       /\ rets[n] = calculateScore(box)
       /\ Range(h) = {0, 10} => rets[n] = 2 * 3600
       /\ (n >= 3 /\ SubSeq(h, 1, 3) = <<10, 70, 230>>) =>
            SubSeq(rets, 1, 3) = <<4 * 3600, 43 * 3600, 323 * 3600>>

C4_Witness ==
  /\ box # NoBox /\ box.kind = "Blue"
  /\ box.absorbed_weights_ = <<70, 230, 10>>
  /\ rets[3] = 323 * 3600

\* every box there is: the test case's and the four of play
AllBoxes == (IF box = NoBox THEN {} ELSE {box}) \cup Range(boxes)

\* C6: in every reachable state of every box, current weight = initial weight
\* + sum of the absorption history, and each absorb(w) appends exactly w to
\* the history and adds exactly w to the weight.
C6_WeightIsInitialPlusHistory ==
  /\ [](\A b \in AllBoxes :
          b.weight_ = b.initial_weight + SeqSum(b.absorbed_weights_))
  /\ [][/\ (box # NoBox /\ box' # box) =>
            \E w \in Doubles :
              /\ box'.absorbed_weights_ = Append(box.absorbed_weights_, w)
              /\ box'.weight_ = box.weight_ + w
        /\ \A j \in DOMAIN boxes :
            boxes'[j] # boxes[j] =>
              LET w == 10 * input_weights[i + 1]
              IN /\ boxes'[j].absorbed_weights_
                      = Append(boxes[j].absorbed_weights_, w)
                 /\ boxes'[j].weight_ = boxes[j].weight_ + w]_vars

C6_Witness ==
  \/ /\ box # NoBox /\ box.kind = "Blue" /\ box.initial_weight = 2
     /\ box.absorbed_weights_ = <<10, -5, 70>> /\ box.weight_ = 77
  \/ /\ pc = "Finished" /\ input_weights = <<1, 1, 2, 3>>
     /\ boxes[4].weight_ = 33

\* C10 as stated: every score absorb returns, of a GreenBox or of a BlueBox,
\* is >= 0, and each player's cumulative score starts at 0.0 and never
\* decreases from one turn to the next.
C10_AllScoresNonNegative ==
  /\ \A k \in DOMAIN rets : rets[k] >= 0
  /\ \A k \in DOMAIN log : log[k].ret >= 0
  /\ (pc \in {"NotStarted", "InProgress"} /\ log = << >>) =>
       (player_A = 0 /\ player_B = 0)
  /\ \A k \in DOMAIN log :
       log[k].score_ >= (IF k > 2 THEN log[k - 2].score_ ELSE 0)

\* C10 amended: every score a GreenBox returns is >= 0, and every score a
\* BlueBox returns is >= 0 when none of the weights it has absorbed is
\* negative, as in play, whose tokens are unsigned; so in a game every score
\* absorb returns is >= 0 and each player's cumulative score starts at 0.0
\* and never decreases from one turn to the next.
C10_ScoresNonNegativeInPlay ==
  /\ (box # NoBox /\ box.kind = "Green") => \A k \in DOMAIN rets : rets[k] >= 0
  /\ (box # NoBox /\ box.kind = "Blue") =>
       \A k \in DOMAIN rets :
         (\A m \in 1 .. k : box.absorbed_weights_[m] >= 0) => rets[k] >= 0
  /\ \A k \in DOMAIN log : log[k].ret >= 0
  /\ (pc \in {"NotStarted", "InProgress"} /\ log = << >>) =>
       (player_A = 0 /\ player_B = 0)
  /\ \A k \in DOMAIN log :
       /\ log[k].score_ >= (IF k > 2 THEN log[k - 2].score_ ELSE 0)
       /\ log[k].score_ = (IF k > 2 THEN log[k - 2].score_ ELSE 0) + log[k].ret
  /\ log # << >> =>
       /\ log[Len(log)].score_ = (IF log[Len(log)].player = "A" THEN player_A ELSE player_B)
       /\ Len(log) > 1 =>
            log[Len(log) - 1].score_
              = (IF log[Len(log)].player = "A" THEN player_B ELSE player_A)

C10_Witness ==
  \/ /\ box # NoBox /\ box.kind = "Blue"
     /\ box.absorbed_weights_ = <<0, 10>> /\ rets = <<0, 2 * 3600>>
  \/ /\ pc = "Finished" /\ Len(log) = 4 /\ log[4].score_ > log[2].score_

-----------------------------------------------------------------------------
\* Properties of Player::takeTurn

\* C1: in every turn the box that absorbs the token has, before the
\* absorption, a weight minimal among the four boxes, and when several boxes
\* share that weight it is the earliest of them in construction order.
C1_MinimalBoxAbsorbs ==
  [][(pc = "InProgress" /\ pc' = "InProgress") =>
       \E j \in DOMAIN boxes :
         /\ boxes'[j].absorbed_weights_
              = Append(boxes[j].absorbed_weights_, 10 * input_weights[i + 1])
         /\ \A m \in DOMAIN boxes : m # j => boxes'[m] = boxes[m]
         /\ \A m \in DOMAIN boxes : boxes[j].weight_ <= boxes[m].weight_
         /\ \A m \in 1 .. j - 1 : boxes[m].weight_ > boxes[j].weight_
         /\ log'[Len(log')].box = j]_vars

\* a turn taken from three boxes of weight 0.1, behind one of weight 0.0 that
\* absorbed a 1 first: the second of the four absorbed
C1_Witness ==
  /\ Len(log) = 2
  /\ <<boxes[1].initial_weight, boxes[2].initial_weight,
       boxes[3].initial_weight, boxes[4].initial_weight>> = <<0, 1, 1, 1>>
  /\ input_weights[1] = 1
  /\ log[1].box = 1
  /\ log[2].box = 2

-----------------------------------------------------------------------------
\* Further properties of the boxes

\* C11 as stated: for any box and any weights absorb accepts, the current
\* weight after each absorb is greater than or equal to the weight before it.
C11_WeightNeverDecreases ==
  [][/\ (box # NoBox /\ box' # NoBox) => box'.weight_ >= box.weight_
     /\ \A j \in DOMAIN boxes : boxes'[j].weight_ >= boxes[j].weight_]_vars

\* C11 amended: absorb(w) adds w to the current weight, so the weight after
\* an absorb is greater than or equal to the weight before it exactly when
\* w >= 0, and is smaller when w < 0; the tokens of play are unsigned, so in
\* a game no box's weight ever decreases.
C11_WeightMovesByAbsorbed ==
  [][/\ (box # NoBox /\ box' # box) =>
          LET w == box'.absorbed_weights_[Len(box'.absorbed_weights_)]
          IN /\ Len(box'.absorbed_weights_) = Len(box.absorbed_weights_) + 1
             /\ w >= 0 => box'.weight_ >= box.weight_
             /\ w < 0 => box'.weight_ < box.weight_
     /\ \A j \in DOMAIN boxes : boxes'[j].weight_ >= boxes[j].weight_]_vars

C11_Witness ==
  /\ box # NoBox /\ box.kind = "Green" /\ box.initial_weight = 0
  /\ box.absorbed_weights_ = <<10, 0, 30>> /\ box.weight_ = 40

\* the scores absorb returns when box b absorbs the weights ws in order
RECURSIVE ScoresOf(_, _)
ScoresOf(b, ws) ==
  IF ws = << >> THEN << >>
  ELSE LET r == absorb(b, Head(ws))
       IN <<r.ret>> \o ScoresOf(r.box, Tail(ws))

\* C12: calculateScore depends on the absorption history only: it is 0.0 on
\* an empty history, and a box of the same variant made with another initial
\* weight that absorbs the same weights returns the same score after every
\* absorb.
C12_ScoreIgnoresInitialWeight ==
  box # NoBox =>
    /\ box.absorbed_weights_ = << >> => calculateScore(box) = 0
    /\ \A w \in 0 .. 3 :
         LET twin == Box(box.kind, w)
         IN /\ calculateScore(twin) = 0
            /\ ScoresOf(twin, box.absorbed_weights_) = rets
            /\ calculateScore([twin EXCEPT
                  !.absorbed_weights_ = box.absorbed_weights_,
                  !.weight_ = w + SeqSum(box.absorbed_weights_)])
                 = calculateScore(box)

C12_Witness ==
  /\ box # NoBox /\ box.kind = "Green" /\ box.initial_weight = 2
  /\ box.absorbed_weights_ = <<30, 120, 150>>
  /\ rets = <<9 * 3600, 5625 * 36, 100 * 3600>>
  /\ ScoresOf(makeGreenBox(0), <<30, 120, 150>>) = rets

\* the last score absorb returns when box b absorbs the weights ws in order
LastScoreOf(b, ws) == ScoresOf(b, ws)[Len(ws)]

\* the permutations of 1 .. n, for every length of history
PermutationsOfLength == [n \in 1 .. MaxAbsorb |-> Permutations(1 .. n)]

\* C13: the BlueBox score does not depend on the order of absorption: a
\* fresh BlueBox that has absorbed a non-empty sequence of weights and one
\* that has absorbed any permutation of it have the same calculateScore.
C13_BlueScoreOrderIndependent ==
  (box # NoBox /\ box.kind = "Blue" /\ box.absorbed_weights_ # << >>) =>
    LET h == box.absorbed_weights_
        n == Len(h)
    IN \A p \in PermutationsOfLength[n] :
         LET hp == [k \in 1 .. n |-> h[p[k]]]
             other == [makeBlueBox(box.initial_weight) EXCEPT
                         !.absorbed_weights_ = hp,
                         !.weight_ = box.weight_]
         IN calculateScore(other) = rets[n]

C13_Witness ==
  /\ box # NoBox /\ box.kind = "Blue"
  /\ box.absorbed_weights_ = <<230, -5, 70, 10>>
  /\ rets[4] = LastScoreOf(makeBlueBox(0), <<10, 70, -5, 230>>)

-----------------------------------------------------------------------------
\* Further properties of play

\* what of a box identifies it: its variant and the weight it was made with
Identity(b) == <<b.kind, b.initial_weight>>

\* C14: each turn changes exactly one box and is taken by exactly one
\* player, to whose score the returned score is added: the three other boxes
\* keep weight and history, the other player's score is unchanged, and the
\* collection holds the same four boxes in the same order for the whole game.
C14_TurnFrame ==
  /\ [](pc \in {"InProgress", "Finished"} =>
          /\ Len(boxes) = 4
          /\ [j \in 1 .. 4 |-> Identity(boxes[j])]
               = <<<<"Green", 0>>, <<"Green", 1>>, <<"Blue", 2>>, <<"Blue", 3>>>>)
  /\ [][pc = "InProgress" =>
          /\ DOMAIN boxes' = DOMAIN boxes
          /\ \A j \in DOMAIN boxes : Identity(boxes'[j]) = Identity(boxes[j])
          /\ pc' = "Finished" => (boxes' = boxes /\ player_A' = player_A
                                                 /\ player_B' = player_B)
          /\ pc' = "InProgress" =>
               /\ Cardinality({j \in DOMAIN boxes : boxes'[j] # boxes[j]}) = 1
               /\ \A j \in DOMAIN boxes :
                    boxes'[j] # boxes[j] =>
                      Len(boxes'[j].absorbed_weights_)
                        = Len(boxes[j].absorbed_weights_) + 1
               /\ Len(log') = Len(log) + 1
               /\ LET turn == log'[Len(log')]
                  IN /\ boxes'[turn.box] # boxes[turn.box]
                     /\ turn.player = "A" =>
                          (player_A' = player_A + turn.ret /\ player_B' = player_B)
                     /\ turn.player = "B" =>
                          (player_B' = player_B + turn.ret /\ player_A' = player_A)
               /\ i % 2 = 0 => player_B' = player_B
               /\ i % 2 = 1 => player_A' = player_A]_vars

C14_Witness ==
  /\ pc = "InProgress" /\ input_weights = <<1, 1, 2, 3>> /\ i = 3
  /\ boxes[3].absorbed_weights_ = <<20>>
  /\ boxes[4].absorbed_weights_ = << >> /\ boxes[4].weight_ = 3
  /\ player_A = 13 * 3600 /\ player_B = 3600

\* C15: in every reachable state of a game the four box weights are pairwise
\* distinct (in exact arithmetic), so the box of minimal weight is unique
\* and the first-in-collection tie-break is never exercised.
C15_WeightsDistinct ==
  pc \in {"InProgress", "Finished"} =>
    /\ \A j, m \in DOMAIN boxes : j # m => boxes[j].weight_ # boxes[m].weight_
    /\ Cardinality({j \in DOMAIN boxes :
                      \A m \in DOMAIN boxes : boxes[j].weight_ <= boxes[m].weight_}) = 1

C15_Witness ==
  /\ pc = "Finished" /\ input_weights = <<0, 0, 1, 0>>
  /\ <<boxes[1].weight_, boxes[2].weight_, boxes[3].weight_, boxes[4].weight_>>
       = <<10, 1, 2, 3>>

\* C16: when the first four tokens are all >= 1 the first four turns select
\* the boxes in construction order, each once; and whenever a token of
\* weight 0 is absorbed, the very next turn selects the same box again.
C16_SelectionOrder ==
  /\ (Len(input_weights) >= 4 /\ \A k \in 1 .. 4 : input_weights[k] >= 1) =>
       \A k \in 1 .. 4 : k <= Len(log) => log[k].box = k
  /\ \A k \in 1 .. Len(log) - 1 :
       log[k].weight = 0 => log[k + 1].box = log[k].box
  /\ (pc = "InProgress" /\ log # << >> /\ log[Len(log)].weight = 0) =>
       smallest_box(boxes, log[Len(log)].box)

C16_Witness ==
  /\ pc = "Finished" /\ input_weights = <<1, 0, 2, 3>>
  /\ <<log[1].box, log[2].box, log[3].box, log[4].box>> = <<1, 2, 2, 3>>

C16_WitnessFirstFour ==
  /\ pc = "Finished" /\ input_weights = Fibonacci8
  /\ <<log[1].box, log[2].box, log[3].box, log[4].box>> = <<1, 2, 3, 4>>

====
